---- MODULE Spec2Model ----
(***************************************************************************)
(* Beam offline-payment escrow program (Anchor / Solana), one payer.       *)
(*                                                                         *)
(* Source: src/program/programs/program/src/{lib.rs,state.rs,              *)
(* attestation.rs}.                                                        *)
(*                                                                         *)
(* Each instruction handler is an operator that runs the handler's         *)
(* statements in source order on the deserialized accounts and returns     *)
(* the error code together with the handler's working copies at the point  *)
(* of return.  An instruction whose handler returns Err is discarded by    *)
(* the runtime: Anchor serializes Account<'info, T> back only when the     *)
(* handler returned Ok, and a failed instruction aborts its transaction    *)
(* (token transfers made by CPI included).  Persist models that step.      *)
(***************************************************************************)
EXTENDS Integers, Sequences, FiniteSets, TLC

(***************************************************************************)
(* Bounds of the model.                                                    *)
(***************************************************************************)
\* u64::MAX scaled down so that checked arithmetic can overflow in the model
ScaledU64Max == 3
\* u32::MAX scaled down (fraud_count)
U32_MAX == 4
\* lib.rs:10 MAX_RECENT_HASHES = 16, scaled down
MAX_RECENT_HASHES == 1
\* state.rs:3 MAX_BUNDLE_HISTORY = 32, scaled down
MAX_BUNDLE_HISTORY == 3
\* state.rs:4 MAX_FRAUD_RECORDS = 16, scaled down
MAX_FRAUD_RECORDS == 2
\* largest payer_nonce a caller submits
MaxNonce == 4
\* largest amount a caller submits
MaxAmount == 2

(***************************************************************************)
(* Input domains.                                                          *)
(***************************************************************************)
\* account keys (Pubkey)
PayerKey == "payer"
MerchantKey == "merchant"
ReporterKey == "reporter"
NoKey == "default"

\* values of Clock::get()?.unix_timestamp
Clocks == {100000}

Amounts == 0..MaxAmount
Nonces == 0..MaxNonce

\* bundle_id strings as byte sequences: empty, two valid ids, one of 129 bytes
LongBundleId == [i \in 1..129 |-> 1]
ValidBundleIds == {<<1>>, <<2>>}
BundleIds == ValidBundleIds \cup {<< >>, LongBundleId}

\* attestation.rs:12
MAX_ATTESTATION_AGE == 86400

VARIABLES
    created,          \* which of the two accounts exist (Anchor `init`)
    escrow_account,   \* OfflineEscrowAccount of the payer
    nonce_registry,   \* NonceRegistry of the payer
    result,           \* instruction and error code of the call being
                      \* answered; NoCall between two calls
    net_funded,       \* ghost: total funded (the initial amount plus the
                      \* successful fund amounts) minus total withdrawn
                      \* (the successful withdraw amounts)
    settle_log,       \* ghost: every successful settlement, in order
    fraud_log,        \* ghost: the successful fraud reports: the set of
                      \* reported pairs, their number, the sum slashed
    u64_max,          \* the largest u64 of the run, fixed by Init
    attest            \* a call of verify_attestation made on its own: its
                      \* arguments and its verdict; NoAttest when there is none

vars == <<created, escrow_account, nonce_registry, result,
          net_funded, settle_log, fraud_log, u64_max, attest>>

\* u64::MAX, the bound of checked_add / checked_mul on u64 fields
U64_MAX == u64_max

\* no call of verify_attestation on its own
NoAttest == [verdict |-> "none"]

\* the run's parameters stay as Init chose them
Frame == UNCHANGED <<u64_max, attest>>

(***************************************************************************)
(* Hashes.  keccak::hash(bundle_id.as_bytes()): a 32-byte value, modelled  *)
(* as a number computed from the bytes; [0u8; 32] is ZeroHash.  The ids of *)
(* BundleIds have pairwise different hashes, none of them zero.            *)
(***************************************************************************)
ZeroHash == 0

RECURSIVE absorb(_, _)
absorb(h, bytes) ==
    IF bytes = << >> THEN h
    ELSE absorb((h * 31 + Head(bytes)) % 1009, Tail(bytes))

keccak(bytes) == 1 + absorb(7, bytes)

(***************************************************************************)
(* Account data.                                                           *)
(***************************************************************************)
\* zeroed account data before `init`
EmptyEscrow ==
    [owner |-> NoKey, escrow_balance |-> 0, last_nonce |-> 0,
     reputation_score |-> 0, total_spent |-> 0, created_at |-> 0,
     stake_locked |-> 0, fraud_count |-> 0, last_fraud_timestamp |-> 0]

EmptyRegistry ==
    [owner |-> NoKey, last_nonce |-> 0, recent_bundle_hashes |-> << >>,
     bundle_history |-> << >>, fraud_records |-> << >>]

\* what a handler returns: the error code and its working copies
Ret(err, escrow, registry) ==
    [err |-> err, escrow |-> escrow, registry |-> registry]

(***************************************************************************)
(* attestation.rs                                                          *)
(***************************************************************************)
\* VERIFIER_PUBKEY_BYTES, and a key the verifier service does not hold
VerifierKey == "verifier"
OtherKey == "other"

\* AttestationRole => role_byte
role_byte(role) == IF role = "Payer" THEN 0 ELSE 1

\* Sha256 over the concatenation of the fields.  Every field but bundle_id
\* has a fixed width, so the concatenation determines each field; the
\* digest is taken as collision-free and stands for its preimage.
\* faulty variant: the role byte is left out of the digest
compute_attestation_root_no_role(role, bundle_id, payer, merchant, amount, bundle_nonce, attestation_nonce, attestation_timestamp) ==
    [prefix |-> "beam.attestation.v1",
     bundle_id |-> bundle_id,
     payer |-> payer,
     merchant |-> merchant,
     amount |-> amount,
     bundle_nonce |-> bundle_nonce,
     role |-> 0,
     attestation_nonce |-> attestation_nonce,
     attestation_timestamp |-> attestation_timestamp]

compute_attestation_root(role, bundle_id, payer, merchant, amount, bundle_nonce, attestation_nonce, attestation_timestamp) ==
    [prefix |-> "beam.attestation.v1",
     bundle_id |-> bundle_id,
     payer |-> payer,
     merchant |-> merchant,
     amount |-> amount,
     bundle_nonce |-> bundle_nonce,
     role |-> role_byte(role),
     attestation_nonce |-> attestation_nonce,
     attestation_timestamp |-> attestation_timestamp]

\* an ed25519 signature: who signed which message; 64 bytes that do not
\* parse as a signature are Malformed
Sign(key, msg) == [wellformed |-> TRUE, signer |-> key, msg |-> msg]
Malformed == [wellformed |-> FALSE, signer |-> OtherKey,
              msg |-> compute_attestation_root("Payer", << >>, NoKey, NoKey,
                                               0, 0, 0, 0)]

\* verifying_key.verify(msg, signature).is_ok()
ed25519_verify(key, msg, signature) ==
    signature.wellformed /\ signature.signer = key /\ signature.msg = msg

\* faulty variant: the age is taken with its sign
abs_signed(x) == x

abs(x) == IF x < 0 THEN -x ELSE x

verify_attestation(proof, role, bundle_id, payer, merchant, amount, bundle_nonce, now) ==
    IF proof.attestation_timestamp <= 0
       \/ abs(now - proof.attestation_timestamp) > MAX_ATTESTATION_AGE
    THEN FALSE
    ELSE LET expected_root ==
                 compute_attestation_root(role, bundle_id, payer, merchant,
                     amount, bundle_nonce, proof.attestation_nonce,
                     proof.attestation_timestamp)
         IN  IF proof.attestation_root # expected_root THEN FALSE
             ELSE IF ~proof.verifier_signature.wellformed THEN FALSE
             ELSE ed25519_verify(VerifierKey, expected_root,
                                 proof.verifier_signature)

\* the proof the verifier service issues for a payment tuple
IssuedProof(role, bundle_id, payer, merchant, amount, bundle_nonce, attestation_nonce, timestamp) ==
    LET root == compute_attestation_root(role, bundle_id, payer, merchant,
                    amount, bundle_nonce, attestation_nonce, timestamp)
    IN  [attestation_root |-> root,
         attestation_nonce |-> attestation_nonce,
         attestation_timestamp |-> timestamp,
         verifier_signature |-> Sign(VerifierKey, root)]

\* Option<AttestationProof>: None is << >>, Some(p) is <<p>>
None == << >>
Some(p) == <<p>>

(***************************************************************************)
(* lib.rs: instruction handlers.  transfer_ok is the outcome of the        *)
(* token::transfer CPI (the token program may refuse the transfer).        *)
(***************************************************************************)
initialize_escrow(escrow, registry, initial_amount, now, transfer_ok) ==
    LET e1 == [escrow EXCEPT !.owner = PayerKey,
                             !.escrow_balance = 0,
                             !.last_nonce = 0,
                             !.reputation_score = 100,
                             !.total_spent = 0,
                             !.created_at = now,
                             !.stake_locked = 0,
                             !.fraud_count = 0,
                             !.last_fraud_timestamp = 0]
    IN  IF initial_amount > 0
        THEN IF ~transfer_ok THEN Ret("TransferFailed", e1, registry)
             ELSE Ret("Ok", [e1 EXCEPT !.escrow_balance = initial_amount],
                      registry)
        ELSE Ret("Ok", e1, registry)

\* faulty variant: the deposit is credited twice
fund_escrow_twice(escrow, registry, amount, transfer_ok) ==
    IF ~(amount > 0) THEN Ret("InvalidAmount", escrow, registry)
    ELSE IF ~transfer_ok THEN Ret("TransferFailed", escrow, registry)
    ELSE IF escrow.escrow_balance + amount > U64_MAX
         THEN Ret("Overflow", escrow, registry)
    ELSE Ret("Ok", [escrow EXCEPT !.escrow_balance = @ + 2 * amount],
             registry)

\* faulty variant: the balance is added without the overflow check
fund_escrow_unchecked(escrow, registry, amount, transfer_ok) ==
    IF ~(amount > 0) THEN Ret("InvalidAmount", escrow, registry)
    ELSE IF ~transfer_ok THEN Ret("TransferFailed", escrow, registry)
    ELSE Ret("Ok", [escrow EXCEPT !.escrow_balance = @ + amount], registry)

fund_escrow(escrow, registry, amount, transfer_ok) ==
    IF ~(amount > 0) THEN Ret("InvalidAmount", escrow, registry)
    ELSE IF ~transfer_ok THEN Ret("TransferFailed", escrow, registry)
    ELSE IF escrow.escrow_balance + amount > U64_MAX
         THEN Ret("Overflow", escrow, registry)
    ELSE Ret("Ok", [escrow EXCEPT !.escrow_balance = @ + amount], registry)

\* faulty variant: the registry starts one nonce ahead of the escrow
initialize_nonce_registry_ahead(escrow, registry) ==
    Ret("Ok", escrow, [registry EXCEPT !.owner = PayerKey, !.last_nonce = 1])

initialize_nonce_registry(escrow, registry) ==
    Ret("Ok", escrow, [registry EXCEPT !.owner = PayerKey, !.last_nonce = 0])

\* faulty variant: the withdrawal is paid out and not debited
withdraw_escrow_no_debit(escrow, registry, amount, transfer_ok) ==
    IF ~(amount > 0) THEN Ret("InvalidAmount", escrow, registry)
    ELSE IF ~(escrow.escrow_balance >= amount)
         THEN Ret("InsufficientFunds", escrow, registry)
    ELSE IF ~transfer_ok THEN Ret("TransferFailed", escrow, registry)
    ELSE Ret("Ok", escrow, registry)

\* faulty variant: the balance is debited without the check before it
withdraw_escrow_unguarded(escrow, registry, amount, transfer_ok) ==
    IF ~(amount > 0) THEN Ret("InvalidAmount", escrow, registry)
    ELSE IF ~transfer_ok THEN Ret("TransferFailed", escrow, registry)
    ELSE IF escrow.escrow_balance < amount
         THEN Ret("Underflow", escrow, registry)
    ELSE Ret("Ok", [escrow EXCEPT !.escrow_balance = @ - amount], registry)

\* faulty variant: a withdrawal releases the locked stake
withdraw_escrow_releasing_stake(escrow, registry, amount, transfer_ok) ==
    IF ~(amount > 0) THEN Ret("InvalidAmount", escrow, registry)
    ELSE IF ~(escrow.escrow_balance >= amount)
         THEN Ret("InsufficientFunds", escrow, registry)
    ELSE IF ~transfer_ok THEN Ret("TransferFailed", escrow, registry)
    ELSE IF escrow.escrow_balance < amount
         THEN Ret("Underflow", escrow, registry)
    ELSE Ret("Ok", [escrow EXCEPT !.escrow_balance = @ - amount,
                                  !.stake_locked = 0], registry)

withdraw_escrow(escrow, registry, amount, transfer_ok) ==
    IF ~(amount > 0) THEN Ret("InvalidAmount", escrow, registry)
    ELSE IF ~(escrow.escrow_balance >= amount)
         THEN Ret("InsufficientFunds", escrow, registry)
    ELSE IF ~transfer_ok THEN Ret("TransferFailed", escrow, registry)
    ELSE IF escrow.escrow_balance < amount
         THEN Ret("Underflow", escrow, registry)
    ELSE Ret("Ok", [escrow EXCEPT !.escrow_balance = @ - amount], registry)

\* faulty variant: the oldest entry is evicted only above capacity
push_bounded_late(vec, cap, x) ==
    Append(IF Len(vec) > cap THEN Tail(vec) ELSE vec, x)

\* Vec::remove(0) when the vector is at capacity, then Vec::push
push_bounded(vec, cap, x) ==
    Append(IF Len(vec) >= cap THEN Tail(vec) ELSE vec, x)

\* faulty variant: the scan skips the newest hash
has_hash_skip_last(recent, bundle_hash) ==
    \E i \in 1..(Len(recent) - 1) : recent[i] = bundle_hash

\* iter().any(|h| *h == bundle_hash)
has_hash(recent, bundle_hash) ==
    \E i \in 1..Len(recent) : recent[i] = bundle_hash

\* faulty variant: a nonce equal to the last one is accepted
nonce_fresh_or_equal(payer_nonce, last_nonce) == payer_nonce >= last_nonce

\* payer_nonce > last_nonce (lines 141 and 142)
nonce_fresh(payer_nonce, last_nonce) == payer_nonce > last_nonce

\* faulty variant: the nonce checks run before the attestation checks
settle_offline_payment_nonce_first(escrow, registry, amount, payer_nonce, bundle_id, evidence, merchant_key, now, transfer_ok) ==
    LET bundle_hash == keccak(bundle_id)
        \* lines 167-173, in order
        e1 == [escrow EXCEPT !.escrow_balance = @ - amount]
        e2 == [e1 EXCEPT !.last_nonce = payer_nonce]
        e3 == [e2 EXCEPT !.total_spent = @ + amount]
        r1 == [registry EXCEPT !.last_nonce = payer_nonce]
        \* lines 176-193
        r2 == [r1 EXCEPT !.recent_bundle_hashes =
                   push_bounded(@, MAX_RECENT_HASHES, bundle_hash)]
        r3 == [r2 EXCEPT !.bundle_history =
                   push_bounded(@, MAX_BUNDLE_HISTORY,
                       [bundle_hash |-> bundle_hash,
                        merchant |-> merchant_key,
                        amount |-> amount,
                        settled_at |-> now,
                        nonce |-> payer_nonce])]
    IN  IF ~(bundle_id # << >> /\ Len(bundle_id) <= 128)
        THEN Ret("InvalidBundleId", escrow, registry)
        ELSE IF ~nonce_fresh(payer_nonce, registry.last_nonce)
        THEN Ret("InvalidNonce", escrow, registry)
        ELSE IF ~nonce_fresh(payer_nonce, escrow.last_nonce)
        THEN Ret("InvalidNonce", escrow, registry)
        ELSE IF evidence.payer_proof # None
                /\ ~verify_attestation(evidence.payer_proof[1], "Payer",
                        bundle_id, PayerKey, merchant_key, amount,
                        payer_nonce, now)
        THEN Ret("InvalidAttestation", escrow, registry)
        ELSE IF evidence.merchant_proof # None
                /\ ~verify_attestation(evidence.merchant_proof[1],
                        "Merchant", bundle_id, PayerKey, merchant_key,
                        amount, payer_nonce, now)
        THEN Ret("InvalidAttestation", escrow, registry)
        ELSE IF ~(registry.owner = PayerKey)
        THEN Ret("InvalidOwner", escrow, registry)
        ELSE IF has_hash(registry.recent_bundle_hashes, bundle_hash)
        THEN Ret("DuplicateBundle", escrow, registry)
        ELSE IF ~(escrow.escrow_balance >= amount)
        THEN Ret("InsufficientFunds", escrow, registry)
        ELSE IF ~transfer_ok
        THEN Ret("TransferFailed", escrow, registry)
        ELSE IF escrow.escrow_balance < amount
        THEN Ret("Underflow", escrow, registry)
        ELSE IF e2.total_spent + amount > U64_MAX
        THEN Ret("Overflow", e2, registry)
        ELSE Ret("Ok", e3, r3)

settle_offline_payment(escrow, registry, amount, payer_nonce, bundle_id, evidence, merchant_key, now, transfer_ok) ==
    LET bundle_hash == keccak(bundle_id)
        \* lines 167-173, in order
        e1 == [escrow EXCEPT !.escrow_balance = @ - amount]
        e2 == [e1 EXCEPT !.last_nonce = payer_nonce]
        e3 == [e2 EXCEPT !.total_spent = @ + amount]
        r1 == [registry EXCEPT !.last_nonce = payer_nonce]
        \* lines 176-193
        r2 == [r1 EXCEPT !.recent_bundle_hashes =
                   push_bounded(@, MAX_RECENT_HASHES, bundle_hash)]
        r3 == [r2 EXCEPT !.bundle_history =
                   push_bounded(@, MAX_BUNDLE_HISTORY,
                       [bundle_hash |-> bundle_hash,
                        merchant |-> merchant_key,
                        amount |-> amount,
                        settled_at |-> now,
                        nonce |-> payer_nonce])]
    IN  IF ~(bundle_id # << >> /\ Len(bundle_id) <= 128)
        THEN Ret("InvalidBundleId", escrow, registry)
        ELSE IF evidence.payer_proof # None
                /\ ~verify_attestation(evidence.payer_proof[1], "Payer",
                        bundle_id, PayerKey, merchant_key, amount,
                        payer_nonce, now)
        THEN Ret("InvalidAttestation", escrow, registry)
        ELSE IF evidence.merchant_proof # None
                /\ ~verify_attestation(evidence.merchant_proof[1],
                        "Merchant", bundle_id, PayerKey, merchant_key,
                        amount, payer_nonce, now)
        THEN Ret("InvalidAttestation", escrow, registry)
        ELSE IF ~(registry.owner = PayerKey)
        THEN Ret("InvalidOwner", escrow, registry)
        ELSE IF has_hash(registry.recent_bundle_hashes, bundle_hash)
        THEN Ret("DuplicateBundle", escrow, registry)
        ELSE IF ~nonce_fresh(payer_nonce, registry.last_nonce)
        THEN Ret("InvalidNonce", escrow, registry)
        ELSE IF ~nonce_fresh(payer_nonce, escrow.last_nonce)
        THEN Ret("InvalidNonce", escrow, registry)
        ELSE IF ~(escrow.escrow_balance >= amount)
        THEN Ret("InsufficientFunds", escrow, registry)
        ELSE IF ~transfer_ok
        THEN Ret("TransferFailed", escrow, registry)
        ELSE IF escrow.escrow_balance < amount
        THEN Ret("Underflow", escrow, registry)
        ELSE IF e2.total_spent + amount > U64_MAX
        THEN Ret("Overflow", e2, registry)
        ELSE Ret("Ok", e3, r3)

\* position of the first record of `history` with this bundle_hash, 0 if none
\* (iter().find(|record| record.bundle_hash == bundle_hash))
find_record(history, bundle_hash) ==
    LET hits == {i \in 1..Len(history) :
                    history[i].bundle_hash = bundle_hash}
    IN  IF hits = {} THEN 0
        ELSE CHOOSE i \in hits : \A j \in hits : i <= j

\* faulty variant: a conflicting_hash equal to the bundle hash is accepted
report_fraudulent_bundle_self_conflict(escrow, registry, bundle_id, conflicting_hash, reason, reporter, now) ==
    LET bundle_hash == keccak(bundle_id)
        has_record == \E i \in 1..Len(registry.bundle_history) :
            registry.bundle_history[i].bundle_hash = bundle_hash
        duplicate == \E i \in 1..Len(registry.fraud_records) :
            /\ registry.fraud_records[i].bundle_hash = bundle_hash
            /\ registry.fraud_records[i].conflicting_hash = conflicting_hash
        \* lines 287-298: the record is pushed before the slash is computed
        r1 == [registry EXCEPT !.fraud_records =
                   push_bounded(@, MAX_FRAUD_RECORDS,
                       [bundle_hash |-> bundle_hash,
                        conflicting_hash |-> conflicting_hash,
                        reporter |-> reporter,
                        reported_at |-> now,
                        reason |-> reason])]
        found == find_record(r1.bundle_history, bundle_hash)
        slash_amount == r1.bundle_history[found].amount * 2
        \* lines 330-341, in order
        e1 == [escrow EXCEPT !.escrow_balance = @ - slash_amount]
        e2 == [e1 EXCEPT !.stake_locked = @ + slash_amount]
        e3 == [e2 EXCEPT !.fraud_count = @ + 1]
        e4 == [e3 EXCEPT !.last_fraud_timestamp = now]
        e5 == [e4 EXCEPT !.reputation_score =
                             IF @ >= 1000 THEN @ - 1000 ELSE 0]
    IN  IF ~(bundle_id # << >> /\ Len(bundle_id) <= 128)
        THEN Ret("InvalidBundleId", escrow, registry)
        ELSE IF ~(conflicting_hash # ZeroHash)
        THEN Ret("InvalidBundleHash", escrow, registry)
        ELSE IF ~(registry.owner = PayerKey)
        THEN Ret("InvalidOwner", escrow, registry)
        ELSE IF ~has_record
        THEN Ret("BundleHistoryNotFound", escrow, registry)
        ELSE IF duplicate
        THEN Ret("FraudEvidenceExists", escrow, registry)
        ELSE IF found = 0
        THEN Ret("BundleHistoryNotFound", escrow, r1)
        ELSE IF slash_amount > U64_MAX
        THEN Ret("Overflow", escrow, r1)
        ELSE IF ~(escrow.escrow_balance >= slash_amount)
        THEN Ret("InsufficientFundsForSlash", escrow, r1)
        ELSE IF escrow.escrow_balance < slash_amount
        THEN Ret("Underflow", escrow, r1)
        ELSE IF e1.stake_locked + slash_amount > U64_MAX
        THEN Ret("Overflow", e1, r1)
        ELSE IF e2.fraud_count + 1 > U32_MAX
        THEN Ret("Overflow", e2, r1)
        ELSE Ret("Ok", e5, r1)

\* faulty variant: a pair already in fraud_records is recorded again
report_fraudulent_bundle_repeated(escrow, registry, bundle_id, conflicting_hash, reason, reporter, now) ==
    LET bundle_hash == keccak(bundle_id)
        has_record == \E i \in 1..Len(registry.bundle_history) :
            registry.bundle_history[i].bundle_hash = bundle_hash
        duplicate == \E i \in 1..Len(registry.fraud_records) :
            /\ registry.fraud_records[i].bundle_hash = bundle_hash
            /\ registry.fraud_records[i].conflicting_hash = conflicting_hash
        \* lines 287-298: the record is pushed before the slash is computed
        r1 == [registry EXCEPT !.fraud_records =
                   push_bounded(@, MAX_FRAUD_RECORDS,
                       [bundle_hash |-> bundle_hash,
                        conflicting_hash |-> conflicting_hash,
                        reporter |-> reporter,
                        reported_at |-> now,
                        reason |-> reason])]
        found == find_record(r1.bundle_history, bundle_hash)
        slash_amount == r1.bundle_history[found].amount * 2
        \* lines 330-341, in order
        e1 == [escrow EXCEPT !.escrow_balance = @ - slash_amount]
        e2 == [e1 EXCEPT !.stake_locked = @ + slash_amount]
        e3 == [e2 EXCEPT !.fraud_count = @ + 1]
        e4 == [e3 EXCEPT !.last_fraud_timestamp = now]
        e5 == [e4 EXCEPT !.reputation_score =
                             IF @ >= 1000 THEN @ - 1000 ELSE 0]
    IN  IF ~(bundle_id # << >> /\ Len(bundle_id) <= 128)
        THEN Ret("InvalidBundleId", escrow, registry)
        ELSE IF ~(conflicting_hash # ZeroHash)
        THEN Ret("InvalidBundleHash", escrow, registry)
        ELSE IF ~(registry.owner = PayerKey)
        THEN Ret("InvalidOwner", escrow, registry)
        ELSE IF ~has_record
        THEN Ret("BundleHistoryNotFound", escrow, registry)
        ELSE IF ~(bundle_hash # conflicting_hash)
        THEN Ret("FraudHashMatches", escrow, registry)
        ELSE IF found = 0
        THEN Ret("BundleHistoryNotFound", escrow, r1)
        ELSE IF slash_amount > U64_MAX
        THEN Ret("Overflow", escrow, r1)
        ELSE IF ~(escrow.escrow_balance >= slash_amount)
        THEN Ret("InsufficientFundsForSlash", escrow, r1)
        ELSE IF escrow.escrow_balance < slash_amount
        THEN Ret("Underflow", escrow, r1)
        ELSE IF e1.stake_locked + slash_amount > U64_MAX
        THEN Ret("Overflow", e1, r1)
        ELSE IF e2.fraud_count + 1 > U32_MAX
        THEN Ret("Overflow", e2, r1)
        ELSE Ret("Ok", e5, r1)

\* faulty variant: a report lowers reputation_score by 50
report_fraudulent_bundle_mild(escrow, registry, bundle_id, conflicting_hash, reason, reporter, now) ==
    LET bundle_hash == keccak(bundle_id)
        has_record == \E i \in 1..Len(registry.bundle_history) :
            registry.bundle_history[i].bundle_hash = bundle_hash
        duplicate == \E i \in 1..Len(registry.fraud_records) :
            /\ registry.fraud_records[i].bundle_hash = bundle_hash
            /\ registry.fraud_records[i].conflicting_hash = conflicting_hash
        \* lines 287-298: the record is pushed before the slash is computed
        r1 == [registry EXCEPT !.fraud_records =
                   push_bounded(@, MAX_FRAUD_RECORDS,
                       [bundle_hash |-> bundle_hash,
                        conflicting_hash |-> conflicting_hash,
                        reporter |-> reporter,
                        reported_at |-> now,
                        reason |-> reason])]
        found == find_record(r1.bundle_history, bundle_hash)
        slash_amount == r1.bundle_history[found].amount * 2
        \* lines 330-341, in order
        e1 == [escrow EXCEPT !.escrow_balance = @ - slash_amount]
        e2 == [e1 EXCEPT !.stake_locked = @ + slash_amount]
        e3 == [e2 EXCEPT !.fraud_count = @ + 1]
        e4 == [e3 EXCEPT !.last_fraud_timestamp = now]
        e5 == [e4 EXCEPT !.reputation_score =
                             IF @ >= 50 THEN @ - 50 ELSE 0]
    IN  IF ~(bundle_id # << >> /\ Len(bundle_id) <= 128)
        THEN Ret("InvalidBundleId", escrow, registry)
        ELSE IF ~(conflicting_hash # ZeroHash)
        THEN Ret("InvalidBundleHash", escrow, registry)
        ELSE IF ~(registry.owner = PayerKey)
        THEN Ret("InvalidOwner", escrow, registry)
        ELSE IF ~has_record
        THEN Ret("BundleHistoryNotFound", escrow, registry)
        ELSE IF ~(bundle_hash # conflicting_hash)
        THEN Ret("FraudHashMatches", escrow, registry)
        ELSE IF duplicate
        THEN Ret("FraudEvidenceExists", escrow, registry)
        ELSE IF found = 0
        THEN Ret("BundleHistoryNotFound", escrow, r1)
        ELSE IF slash_amount > U64_MAX
        THEN Ret("Overflow", escrow, r1)
        ELSE IF ~(escrow.escrow_balance >= slash_amount)
        THEN Ret("InsufficientFundsForSlash", escrow, r1)
        ELSE IF escrow.escrow_balance < slash_amount
        THEN Ret("Underflow", escrow, r1)
        ELSE IF e1.stake_locked + slash_amount > U64_MAX
        THEN Ret("Overflow", e1, r1)
        ELSE IF e2.fraud_count + 1 > U32_MAX
        THEN Ret("Overflow", e2, r1)
        ELSE Ret("Ok", e5, r1)

report_fraudulent_bundle(escrow, registry, bundle_id, conflicting_hash, reason, reporter, now) ==
    LET bundle_hash == keccak(bundle_id)
        has_record == \E i \in 1..Len(registry.bundle_history) :
            registry.bundle_history[i].bundle_hash = bundle_hash
        duplicate == \E i \in 1..Len(registry.fraud_records) :
            /\ registry.fraud_records[i].bundle_hash = bundle_hash
            /\ registry.fraud_records[i].conflicting_hash = conflicting_hash
        \* lines 287-298: the record is pushed before the slash is computed
        r1 == [registry EXCEPT !.fraud_records =
                   push_bounded(@, MAX_FRAUD_RECORDS,
                       [bundle_hash |-> bundle_hash,
                        conflicting_hash |-> conflicting_hash,
                        reporter |-> reporter,
                        reported_at |-> now,
                        reason |-> reason])]
        found == find_record(r1.bundle_history, bundle_hash)
        slash_amount == r1.bundle_history[found].amount * 2
        \* lines 330-341, in order
        e1 == [escrow EXCEPT !.escrow_balance = @ - slash_amount]
        e2 == [e1 EXCEPT !.stake_locked = @ + slash_amount]
        e3 == [e2 EXCEPT !.fraud_count = @ + 1]
        e4 == [e3 EXCEPT !.last_fraud_timestamp = now]
        e5 == [e4 EXCEPT !.reputation_score =
                             IF @ >= 1000 THEN @ - 1000 ELSE 0]
    IN  IF ~(bundle_id # << >> /\ Len(bundle_id) <= 128)
        THEN Ret("InvalidBundleId", escrow, registry)
        ELSE IF ~(conflicting_hash # ZeroHash)
        THEN Ret("InvalidBundleHash", escrow, registry)
        ELSE IF ~(registry.owner = PayerKey)
        THEN Ret("InvalidOwner", escrow, registry)
        ELSE IF ~has_record
        THEN Ret("BundleHistoryNotFound", escrow, registry)
        ELSE IF ~(bundle_hash # conflicting_hash)
        THEN Ret("FraudHashMatches", escrow, registry)
        ELSE IF duplicate
        THEN Ret("FraudEvidenceExists", escrow, registry)
        ELSE IF found = 0
        THEN Ret("BundleHistoryNotFound", escrow, r1)
        ELSE IF slash_amount > U64_MAX
        THEN Ret("Overflow", escrow, r1)
        ELSE IF ~(escrow.escrow_balance >= slash_amount)
        THEN Ret("InsufficientFundsForSlash", escrow, r1)
        ELSE IF escrow.escrow_balance < slash_amount
        THEN Ret("Underflow", escrow, r1)
        ELSE IF e1.stake_locked + slash_amount > U64_MAX
        THEN Ret("Overflow", e1, r1)
        ELSE IF e2.fraud_count + 1 > U32_MAX
        THEN Ret("Overflow", e2, r1)
        ELSE Ret("Ok", e5, r1)

\* migrate_escrow grows the account data to the new size when it is smaller
\* and zero-fills the added bytes behind the existing data; the fields
\* already stored are not written.  transfer_ok is the outcome of the
\* system-program transfer of the rent difference.
migrate_escrow(escrow, registry, transfer_ok) ==
    IF ~transfer_ok THEN Ret("TransferFailed", escrow, registry)
    ELSE Ret("Ok", escrow, registry)

(***************************************************************************)
(* Anchor's exit of a #[account(mut)] account: the handler's working copy  *)
(* is written back to the account only when the handler returned Ok; on    *)
(* Err the instruction fails and the stored account data stays as it was.  *)
(***************************************************************************)
\* faulty variant: the working copy is written back whatever the handler returned
PersistAlways(stored, working, err) == working

Persist(stored, working, err) == IF err = "Ok" THEN working ELSE stored

(***************************************************************************)
(* Inputs of the calls.                                                    *)
(***************************************************************************)
\* SettlementEvidence values a caller submits with a settlement: no proofs,
\* two issued proofs, a payer proof signed by another key (alone, and for
\* amount 1 also beside an issued merchant proof), for amount 1 a merchant
\* proof signed by another key alone, and an issued Payer proof presented
\* as the merchant proof
EvidenceChoices(bundle_id, merchant, amount, payer_nonce, now) ==
    LET good(role) == Some(IssuedProof(role, bundle_id, PayerKey, merchant,
                                       amount, payer_nonce, 1, now))
        forged(role) == Some([good(role)[1] EXCEPT !.verifier_signature =
                            Sign(OtherKey, good(role)[1].attestation_root)])
    IN  {[payer_proof |-> None, merchant_proof |-> None],
         [payer_proof |-> good("Payer"), merchant_proof |-> good("Merchant")],
         [payer_proof |-> forged("Payer"), merchant_proof |-> None],
         [payer_proof |-> good("Payer"), merchant_proof |-> good("Payer")]}
        \cup
        IF amount # 1 THEN {}
        ELSE {[payer_proof |-> forged("Payer"),
               merchant_proof |-> good("Merchant")],
              [payer_proof |-> None, merchant_proof |-> forged("Merchant")]}

\* conflicting_hash values a reporter submits: all-zero, the hash of a
\* bundle id, and a hash of no bundle
ConflictHashes == {ZeroHash, keccak(<<1>>), 1000}

\* state.rs:16 FraudReason
FraudReason == {"DuplicateBundle", "InvalidAttestation", "Other"}

\* the settlement calls: every amount, nonce and evidence for the
\* well-formed bundle ids, with a transfer that goes through or (without
\* evidence) a refused one; for each malformed bundle id, calls with a
\* stale nonce and every evidence
SettleCalls ==
    LET call(a, n, b, ev, now, ok) ==
            [amount |-> a, payer_nonce |-> n, bundle_id |-> b,
             evidence |-> ev, merchant |-> MerchantKey, now |-> now,
             transfer_ok |-> ok]
        NoEvidence == [payer_proof |-> None, merchant_proof |-> None]
    IN  UNION {
          {call(a, n, b, ev, now, TRUE) :
              ev \in EvidenceChoices(b, MerchantKey, a, n, now)}
          \cup {call(a, n, b, NoEvidence, now, FALSE)} :
          a \in Amounts, n \in Nonces, b \in ValidBundleIds,
          now \in Clocks}
        \cup UNION {
          {call(MaxAmount, 0, b, ev, now, TRUE) :
              ev \in EvidenceChoices(b, MerchantKey, MaxAmount, 0, now)} :
          b \in BundleIds \ ValidBundleIds, now \in Clocks}

(***************************************************************************)
(* State machine.                                                          *)
(***************************************************************************)
\* The runtime applies the instructions on one payer's accounts one at a
\* time: an instruction starts when none is being answered.
NoCall == [op |-> "none", err |-> "Ok"]
Idle == result = NoCall

Init ==
    /\ created = {}
    /\ escrow_account = EmptyEscrow
    /\ nonce_registry = EmptyRegistry
    /\ result = NoCall
    /\ net_funded = 0
    /\ settle_log = << >>
    /\ fraud_log = [pairs |-> {}, reports |-> 0, slashed |-> 0]
    /\ u64_max = ScaledU64Max
    /\ attest = NoAttest

\* the stored accounts after a call that returned `res`
Store(res) ==
    /\ escrow_account' = Persist(escrow_account, res.escrow, res.err)
    /\ nonce_registry' = Persist(nonce_registry, res.registry, res.err)

InitializeEscrow ==
    /\ Idle
    /\ "escrow_account" \notin created
    /\ \E initial_amount \in Amounts, now \in Clocks,
          transfer_ok \in BOOLEAN :
          LET res == initialize_escrow(escrow_account, nonce_registry,
                                       initial_amount, now, transfer_ok)
          IN  /\ Store(res)
              /\ result' = [op |-> "initialize_escrow", err |-> res.err]
              /\ created' = IF res.err = "Ok"
                            THEN created \cup {"escrow_account"}
                            ELSE created
              /\ net_funded' = IF res.err = "Ok" THEN initial_amount
                               ELSE net_funded
    /\ UNCHANGED <<settle_log, fraud_log>>
    /\ Frame

InitializeNonceRegistry ==
    /\ Idle
    /\ "nonce_registry" \notin created
    /\ LET res == initialize_nonce_registry(escrow_account, nonce_registry)
       IN  /\ Store(res)
           /\ result' = [op |-> "initialize_nonce_registry",
                         err |-> res.err]
    /\ created' = created \cup {"nonce_registry"}
    /\ UNCHANGED <<net_funded, settle_log, fraud_log>>
    /\ Frame

FundEscrow ==
    /\ Idle
    /\ "escrow_account" \in created
    /\ \E amount \in Amounts, transfer_ok \in BOOLEAN :
          LET res == fund_escrow(escrow_account, nonce_registry, amount,
                                 transfer_ok)
          IN  /\ Store(res)
              /\ result' = [op |-> "fund_escrow", err |-> res.err]
              /\ net_funded' = IF res.err = "Ok"
                               THEN net_funded + amount
                               ELSE net_funded
    /\ UNCHANGED <<created, settle_log, fraud_log>>
    /\ Frame

WithdrawEscrow ==
    /\ Idle
    /\ "escrow_account" \in created
    /\ \E amount \in Amounts, transfer_ok \in BOOLEAN :
          LET res == withdraw_escrow(escrow_account, nonce_registry, amount,
                                     transfer_ok)
          IN  /\ Store(res)
              /\ result' = [op |-> "withdraw_escrow", err |-> res.err]
              /\ net_funded' = IF res.err = "Ok"
                               THEN net_funded - amount
                               ELSE net_funded
    /\ UNCHANGED <<created, settle_log, fraud_log>>
    /\ Frame

SettleOfflinePayment ==
    /\ Idle
    /\ created = {"escrow_account", "nonce_registry"}
    /\ \E call \in SettleCalls :
          LET amount == call.amount
              payer_nonce == call.payer_nonce
              bundle_id == call.bundle_id
              now == call.now
              res == settle_offline_payment(escrow_account, nonce_registry,
                         amount, payer_nonce, bundle_id, call.evidence,
                         call.merchant, now, call.transfer_ok)
          IN  /\ Store(res)
              /\ result' = [op |-> "settle_offline_payment",
                            err |-> res.err]
              /\ settle_log' =
                    IF res.err = "Ok"
                    THEN Append(settle_log,
                             [bundle_hash |-> keccak(bundle_id),
                              merchant |-> MerchantKey,
                              amount |-> amount,
                              settled_at |-> now,
                              nonce |-> payer_nonce])
                    ELSE settle_log
    /\ UNCHANGED <<created, net_funded, fraud_log>>
    /\ Frame

ReportFraudulentBundle ==
    /\ Idle
    /\ created = {"escrow_account", "nonce_registry"}
    /\ \E bundle_id \in BundleIds, conflicting_hash \in ConflictHashes,
          reason \in {"DuplicateBundle"}, now \in Clocks :
          LET res == report_fraudulent_bundle(escrow_account,
                         nonce_registry, bundle_id, conflicting_hash, reason,
                         ReporterKey, now)
          IN  /\ Store(res)
              /\ result' = [op |-> "report_fraudulent_bundle",
                            err |-> res.err]
              /\ fraud_log' =
                    IF res.err = "Ok"
                    THEN [pairs |-> fraud_log.pairs \cup
                              {<<keccak(bundle_id), conflicting_hash>>},
                          reports |-> fraud_log.reports + 1,
                          slashed |-> fraud_log.slashed
                              + (escrow_account.escrow_balance
                                 - res.escrow.escrow_balance)]
                    ELSE fraud_log
    /\ UNCHANGED <<created, net_funded, settle_log>>
    /\ Frame

MigrateEscrow ==
    /\ Idle
    /\ "escrow_account" \in created
    /\ \E transfer_ok \in BOOLEAN :
          LET res == migrate_escrow(escrow_account, nonce_registry,
                                    transfer_ok)
          IN  /\ Store(res)
              /\ result' = [op |-> "migrate_escrow", err |-> res.err]
    /\ UNCHANGED <<created, net_funded, settle_log, fraud_log>>
    /\ Frame

\* the Result<()> of the instruction goes back to the caller
Return ==
    /\ ~Idle
    /\ result' = NoCall
    /\ UNCHANGED <<created, escrow_account, nonce_registry, net_funded,
                   settle_log, fraud_log>>
    /\ Frame

Next ==
    \/ InitializeEscrow
    \/ InitializeNonceRegistry
    \/ FundEscrow
    \/ WithdrawEscrow
    \/ SettleOfflinePayment
    \/ ReportFraudulentBundle
    \/ MigrateEscrow
    \/ Return

Spec == Init /\ [][Next]_vars

(***************************************************************************)
(* Properties.                                                             *)
(***************************************************************************)
BothCreated == created = {"escrow_account", "nonce_registry"}

Max(a, b) == IF a >= b THEN a ELSE b

\* the outcome of a settlement call on the stored accounts
SettleResult(call) ==
    settle_offline_payment(escrow_account, nonce_registry, call.amount,
        call.payer_nonce, call.bundle_id, call.evidence, call.merchant,
        call.now, call.transfer_ok)

\* the bundle id is well formed
WellFormedId(call) ==
    call.bundle_id # << >> /\ Len(call.bundle_id) <= 128

\* every proof the call carries is accepted by the verifier for its role
ProofsAccepted(call) ==
    /\ call.evidence.payer_proof # None =>
          verify_attestation(call.evidence.payer_proof[1], "Payer",
              call.bundle_id, PayerKey, call.merchant, call.amount,
              call.payer_nonce, call.now)
    /\ call.evidence.merchant_proof # None =>
          verify_attestation(call.evidence.merchant_proof[1], "Merchant",
              call.bundle_id, PayerKey, call.merchant, call.amount,
              call.payer_nonce, call.now)

\* the bundle's hash is in recent_bundle_hashes (only well-formed ids are
\* ever settled)
InRecent(call) ==
    WellFormedId(call) /\ \E i \in 1..Len(nonce_registry.recent_bundle_hashes) :
        nonce_registry.recent_bundle_hashes[i] = keccak(call.bundle_id)

\* the last k entries of a sequence
LastK(seq, k) == SubSeq(seq, Len(seq) - k + 1, Len(seq))

Min(a, b) == IF a <= b THEN a ELSE b

RECURSIVE SumAmounts(_)
SumAmounts(log) ==
    IF log = << >> THEN 0 ELSE Head(log).amount + SumAmounts(Tail(log))

\* C1: Nonce monotonicity.  The payer_nonce values of the successful
\* settlements of the payer are strictly increasing, and a settlement call
\* that passes the bundle-id, attestation and duplicate checks and whose
\* payer_nonce is <= max(NonceRegistry.last_nonce, EscrowAccount.last_nonce)
\* is rejected with InvalidNonce.  (Calls start in idle states.)
C1_NonceMonotonic ==
    /\ \A i, j \in 1..Len(settle_log) :
          i < j => settle_log[i].nonce < settle_log[j].nonce
    /\ (BothCreated /\ Idle) =>
          \A call \in SettleCalls :
              ( /\ WellFormedId(call)
                /\ ProofsAccepted(call)
                /\ ~InRecent(call)
                /\ call.payer_nonce <= Max(nonce_registry.last_nonce,
                                           escrow_account.last_nonce) )
              => SettleResult(call).err = "InvalidNonce"

\* two settlements were accepted and a later call was rejected for its nonce
C1_Witness ==
    /\ Len(settle_log) >= 2
    /\ result = [op |-> "settle_offline_payment", err |-> "InvalidNonce"]

\* C2: No double-spend.  A given bundle_id is settled successfully at most
\* once, whatever nonce a later settlement of it carries and however many
\* other settlements happened in between.
C2_NoDoubleSpend ==
    \A i, j \in 1..Len(settle_log) :
        i < j => settle_log[i].bundle_hash # settle_log[j].bundle_hash

\* C3 as stated: balance + stake_locked + total withdrawn + total
\* slashed-out = total funded, the slashed-out total being the sum of the
\* amounts that slashing removed from escrow_balance.
C3_ConservationAsStated ==
    escrow_account.escrow_balance + escrow_account.stake_locked
        + fraud_log.slashed = net_funded

\* C3 amended: balance + stake_locked + total withdrawn + total_spent =
\* total funded, total_spent being the sum of the settled amounts; slashing
\* moves its amount from escrow_balance into stake_locked.
C3_Conservation ==
    /\ escrow_account.escrow_balance + escrow_account.stake_locked
           + escrow_account.total_spent = net_funded
    /\ escrow_account.total_spent = SumAmounts(settle_log)
    /\ escrow_account.stake_locked = fraud_log.slashed

\* a withdrawal succeeds after a settlement and a slash of positive amounts
C3_Witness ==
    /\ result = [op |-> "withdraw_escrow", err |-> "Ok"]
    /\ escrow_account.total_spent > 0
    /\ escrow_account.stake_locked > 0

\* C4: Conservation as an inequality, and last_nonce never decreases:
\* escrow_balance + stake_locked + total withdrawn + total_spent <= total
\* funded in every state, and no step lowers EscrowAccount.last_nonce.
C4_ConservationBound ==
    [][ /\ escrow_account.escrow_balance + escrow_account.stake_locked
             + escrow_account.total_spent <= net_funded
        /\ escrow_account'.escrow_balance + escrow_account'.stake_locked
             + escrow_account'.total_spent <= net_funded'
        /\ escrow_account'.last_nonce >= escrow_account.last_nonce ]_vars

\* a deposit succeeds after a settlement raised last_nonce
C4_Witness ==
    /\ result = [op |-> "fund_escrow", err |-> "Ok"]
    /\ escrow_account.last_nonce > 1
    /\ escrow_account.total_spent > 0

\* C5: Fraud idempotence.  A given (bundle_hash, conflicting_hash) pair is
\* reported successfully, and so slashed, at most once: the number of
\* successful reports equals the number of distinct pairs reported.
C5_FraudIdempotent ==
    Cardinality(fraud_log.pairs) = fraud_log.reports

Last(seq) == seq[Len(seq)]

\* C6: Slash correctness.  A successful report against a settled bundle
\* that has a BundleRecord of amount A, with escrow_balance >= 2A, lowers
\* escrow_balance by 2A, raises stake_locked by 2A and fraud_count by 1,
\* sets reputation_score to max(reputation_score - 1000, 0) and leaves
\* last_nonce, total_spent, recent_bundle_hashes and bundle_history alone.
C6_SlashCorrect ==
    [][ (result' = [op |-> "report_fraudulent_bundle", err |-> "Ok"]) =>
        LET bundle_hash == Last(nonce_registry'.fraud_records).bundle_hash
            history == nonce_registry.bundle_history
        IN  \A i \in 1..Len(history) :
              ( /\ history[i].bundle_hash = bundle_hash
                /\ escrow_account.escrow_balance >= 2 * history[i].amount )
              =>
              /\ escrow_account'.escrow_balance =
                    escrow_account.escrow_balance - 2 * history[i].amount
              /\ escrow_account'.stake_locked =
                    escrow_account.stake_locked + 2 * history[i].amount
              /\ escrow_account'.fraud_count =
                    escrow_account.fraud_count + 1
              /\ escrow_account'.reputation_score =
                    Max(escrow_account.reputation_score - 1000, 0)
              /\ escrow_account'.last_nonce = escrow_account.last_nonce
              /\ escrow_account'.total_spent = escrow_account.total_spent
              /\ nonce_registry'.last_nonce = nonce_registry.last_nonce
              /\ nonce_registry'.recent_bundle_hashes =
                    nonce_registry.recent_bundle_hashes
              /\ nonce_registry'.bundle_history =
                    nonce_registry.bundle_history ]_vars

\* the call is a duplicate with a fresh nonce and a covered amount
FreshDuplicate(call) ==
    /\ InRecent(call)
    /\ call.payer_nonce > nonce_registry.last_nonce
    /\ call.payer_nonce > escrow_account.last_nonce
    /\ escrow_account.escrow_balance >= call.amount

\* the call is rejected with DuplicateBundle and nothing is stored
RejectedAsDuplicate(call) ==
    LET res == SettleResult(call)
    IN  /\ res.err = "DuplicateBundle"
        /\ Persist(escrow_account, res.escrow, res.err) = escrow_account
        /\ Persist(nonce_registry, res.registry, res.err) = nonce_registry

\* C7 as stated: a settlement call whose bundle hash is in
\* recent_bundle_hashes is rejected with DuplicateBundle even when its
\* nonce is above both last_nonce copies and the balance covers the amount.
C7_DuplicateAsStated ==
    (BothCreated /\ Idle) =>
        \A call \in SettleCalls :
            FreshDuplicate(call) => RejectedAsDuplicate(call)

\* C7 amended: a settlement call whose bundle hash is in
\* recent_bundle_hashes and whose proofs, when present, are accepted by the
\* verifier is rejected with DuplicateBundle even when its nonce is above
\* both last_nonce copies and the balance covers the amount; the rejection
\* changes no state.
C7_DuplicateRejected ==
    (BothCreated /\ Idle) =>
        \A call \in SettleCalls :
            (FreshDuplicate(call) /\ ProofsAccepted(call))
            => RejectedAsDuplicate(call)

\* a call was rejected as a duplicate in a state where a duplicate with a
\* fresh nonce, a covered amount and accepted proofs exists
C7_Witness ==
    /\ result = [op |-> "settle_offline_payment", err |-> "DuplicateBundle"]
    /\ \E call \in SettleCalls :
          /\ FreshDuplicate(call)
          /\ call.evidence.payer_proof # None
          /\ ProofsAccepted(call)
          /\ call.amount > 0

C11_NonceAgreement ==
    /\ nonce_registry.last_nonce = escrow_account.last_nonce
    /\ result = [op |-> "settle_offline_payment", err |-> "Ok"] =>
          /\ nonce_registry.last_nonce = Last(settle_log).nonce
          /\ escrow_account.last_nonce = Last(settle_log).nonce

\* a third settlement has just succeeded, with a nonce that skipped a value
C11_Witness ==
    /\ result = [op |-> "settle_offline_payment", err |-> "Ok"]
    /\ Len(settle_log) = 3
    /\ Last(settle_log).nonce = MaxNonce

\* the call carries no proof
NoProofs(call) ==
    call.evidence.payer_proof = None /\ call.evidence.merchant_proof = None

\* the call passes the bundle-id, duplicate, nonce and balance checks
PassesChecks(call) ==
    /\ WellFormedId(call)
    /\ ~InRecent(call)
    /\ call.payer_nonce > nonce_registry.last_nonce
    /\ call.payer_nonce > escrow_account.last_nonce
    /\ escrow_account.escrow_balance >= call.amount

\* C12 as stated: a settlement call without proofs succeeds whenever the
\* bundle-id, duplicate, nonce and balance checks pass (its token transfer
\* going through), and a call with a well-formed bundle id in which a
\* present proof is not accepted for its role fails with InvalidAttestation.
C12_OptionalAsStated ==
    (BothCreated /\ Idle) =>
        \A call \in SettleCalls :
            /\ (NoProofs(call) /\ PassesChecks(call) /\ call.transfer_ok)
               => SettleResult(call).err = "Ok"
            /\ (WellFormedId(call) /\ ~ProofsAccepted(call))
               => SettleResult(call).err = "InvalidAttestation"

\* C12 amended: a settlement call without proofs succeeds whenever the
\* bundle-id, duplicate, nonce and balance checks pass, its token transfer
\* goes through and total_spent + amount does not exceed u64::MAX; a call
\* with a well-formed bundle id in which a present proof is not accepted for
\* its role fails with InvalidAttestation, whatever the other proof and the
\* later preconditions.
C12_AttestationOptional ==
    (BothCreated /\ Idle) =>
        \A call \in SettleCalls :
            /\ ( /\ NoProofs(call)
                 /\ PassesChecks(call)
                 /\ call.transfer_ok
                 /\ escrow_account.total_spent + call.amount <= U64_MAX )
               => SettleResult(call).err = "Ok"
            /\ (WellFormedId(call) /\ ~ProofsAccepted(call))
               => SettleResult(call).err = "InvalidAttestation"

\* after a settlement, a call was rejected with InvalidAttestation in a
\* state where a call with an accepted payer proof and a rejected merchant
\* proof passes every other check, and so does a call without proofs
C12_Witness ==
    /\ result = [op |-> "settle_offline_payment", err |-> "InvalidAttestation"]
    /\ settle_log # << >>
    /\ \E call \in SettleCalls :
          /\ call.evidence.payer_proof # None
          /\ call.evidence.merchant_proof # None
          /\ ~ProofsAccepted(call)
          /\ PassesChecks(call)
    /\ \E call \in SettleCalls :
          /\ NoProofs(call)
          /\ PassesChecks(call)
          /\ call.transfer_ok
          /\ call.amount > 0
          /\ SettleResult(call).err = "Ok"

(***************************************************************************)
(* verify_attestation on its own.  AttestSpec draws the arguments of one   *)
(* call from bounded sets: a proof issued by the verifier service for a    *)
(* payment tuple (or the same proof signed by another key), presented at   *)
(* time `now`.  VerifyAttestation applies the function; after an accepted  *)
(* call, ChangeArgument and ChangeProofField change exactly one argument   *)
(* or one field of the proof, root and signature kept, and the call is     *)
(* made again.  The accounts are not touched.                              *)
(***************************************************************************)
AttestRoles == {"Payer", "Merchant"}
AttestKeys == {PayerKey, MerchantKey}
AttestNonces == {1, 2}
AttestClocks == {100000, 50}

\* attestation_timestamp values around the freshness window of `now`
AttestTimestamps(now) ==
    {now - MAX_ATTESTATION_AGE - 1, now - MAX_ATTESTATION_AGE, now,
     now + MAX_ATTESTATION_AGE, now + MAX_ATTESTATION_AGE + 1, 0, -1}

\* the calls presented at time `now` with a proof dated `timestamp`
AttestCallsAt(now, timestamp) ==
    UNION {
      LET issued == IssuedProof(role, bundle_id, payer, merchant, amount,
                                bundle_nonce, attestation_nonce, timestamp)
      IN  {[proof |-> proof, role |-> role, bundle_id |-> bundle_id,
            payer |-> payer, merchant |-> merchant, amount |-> amount,
            bundle_nonce |-> bundle_nonce, now |-> now,
            verdict |-> "pending", changed |-> "none"] :
           proof \in {issued,
                      [issued EXCEPT !.verifier_signature =
                           Sign(OtherKey, issued.attestation_root)]}} :
      role \in AttestRoles, bundle_id \in ValidBundleIds,
      payer \in AttestKeys, merchant \in AttestKeys, amount \in Amounts,
      bundle_nonce \in AttestNonces, attestation_nonce \in AttestNonces}

AttestCalls ==
    UNION {UNION {AttestCallsAt(now, timestamp) :
                     timestamp \in AttestTimestamps(now)} :
           now \in AttestClocks}

AttestInit ==
    /\ created = {}
    /\ escrow_account = EmptyEscrow
    /\ nonce_registry = EmptyRegistry
    /\ result = NoCall
    /\ net_funded = 0
    /\ settle_log = << >>
    /\ fraud_log = [pairs |-> {}, reports |-> 0, slashed |-> 0]
    /\ u64_max = ScaledU64Max
    /\ attest \in AttestCalls

AccountsUnchanged ==
    UNCHANGED <<created, escrow_account, nonce_registry, result, net_funded,
                settle_log, fraud_log, u64_max>>

VerifyAttestation ==
    /\ attest.verdict = "pending"
    /\ attest' = [attest EXCEPT !.verdict =
                     IF verify_attestation(attest.proof, attest.role,
                            attest.bundle_id, attest.payer, attest.merchant,
                            attest.amount, attest.bundle_nonce, attest.now)
                     THEN "accepted" ELSE "rejected"]
    /\ AccountsUnchanged

\* one argument of an accepted call gets another value
ChangeArgument ==
    /\ attest.verdict = "accepted"
    /\ attest.changed = "none"
    /\ \/ \E v \in AttestRoles \ {attest.role} :
             attest' = [attest EXCEPT !.role = v, !.changed = "role",
                                      !.verdict = "pending"]
       \/ \E v \in ValidBundleIds \ {attest.bundle_id} :
             attest' = [attest EXCEPT !.bundle_id = v,
                                      !.changed = "bundle_id",
                                      !.verdict = "pending"]
       \/ \E v \in AttestKeys \ {attest.payer} :
             attest' = [attest EXCEPT !.payer = v, !.changed = "payer",
                                      !.verdict = "pending"]
       \/ \E v \in AttestKeys \ {attest.merchant} :
             attest' = [attest EXCEPT !.merchant = v, !.changed = "merchant",
                                      !.verdict = "pending"]
       \/ \E v \in Amounts \ {attest.amount} :
             attest' = [attest EXCEPT !.amount = v, !.changed = "amount",
                                      !.verdict = "pending"]
       \/ \E v \in AttestNonces \ {attest.bundle_nonce} :
             attest' = [attest EXCEPT !.bundle_nonce = v,
                                      !.changed = "bundle_nonce",
                                      !.verdict = "pending"]
    /\ AccountsUnchanged

\* one field of an accepted proof gets another value, root and signature kept
ChangeProofField ==
    /\ attest.verdict = "accepted"
    /\ attest.changed = "none"
    /\ \/ \E v \in AttestNonces \ {attest.proof.attestation_nonce} :
             attest' = [attest EXCEPT !.proof.attestation_nonce = v,
                                      !.changed = "attestation_nonce",
                                      !.verdict = "pending"]
       \/ \E v \in AttestTimestamps(attest.now)
                      \ {attest.proof.attestation_timestamp} :
             attest' = [attest EXCEPT !.proof.attestation_timestamp = v,
                                      !.changed = "timestamp",
                                      !.verdict = "pending"]
    /\ AccountsUnchanged

AttestNext ==
    \/ VerifyAttestation
    \/ ChangeArgument
    \/ ChangeProofField

AttestSpec == AttestInit /\ [][AttestNext]_vars

\* C13: Attestation binding.  After a proof was accepted for (role,
\* bundle_id, payer, merchant, amount, bundle_nonce, now), the call with
\* exactly one of role, bundle_id, payer, merchant, amount, bundle_nonce,
\* attestation_nonce or timestamp changed (root and signature kept) returns
\* false; so a proof valid for role Payer is rejected as a merchant proof.
C13_AttestationBinding ==
    (attest.changed # "none" /\ attest.verdict # "pending")
    => attest.verdict = "rejected"

\* a proof accepted for role Payer was presented for role Merchant and
\* rejected
C13_Witness ==
    /\ attest.changed = "role"
    /\ attest.role = "Merchant"
    /\ attest.verdict = "rejected"

\* the proof of the call is the one issued for the call's arguments
IssuedForCall ==
    attest.proof = IssuedProof(attest.role, attest.bundle_id, attest.payer,
                       attest.merchant, attest.amount, attest.bundle_nonce,
                       attest.proof.attestation_nonce,
                       attest.proof.attestation_timestamp)

\* C14: Freshness boundary.  verify_attestation rejects every proof with
\* timestamp <= 0 or |now - timestamp| > 86400, and a proof with matching
\* root and valid signature is accepted otherwise: timestamp = now - 86400
\* and now + 86400 are accepted, now - 86401 and now + 86401 rejected.
C14_FreshnessBoundary ==
    LET t == attest.proof.attestation_timestamp
        fresh == /\ t > 0
                 /\ attest.now - t <= 86400
                 /\ t - attest.now <= 86400
    IN  (attest # NoAttest /\ attest.verdict # "pending") =>
            /\ ~fresh => attest.verdict = "rejected"
            /\ (fresh /\ IssuedForCall) => attest.verdict = "accepted"

\* an issued proof dated exactly 86400 seconds after `now` was accepted
C14_Witness ==
    /\ attest # NoAttest
    /\ attest.changed = "none"
    /\ attest.verdict = "accepted"
    /\ attest.proof.attestation_timestamp = attest.now + 86400

\* the stored escrow account after a call that returned `res`
EscrowAfter(res) == Persist(escrow_account, res.escrow, res.err)

\* the stored nonce registry after a call that returned `res`
RegistryAfter(res) == Persist(nonce_registry, res.registry, res.err)

\* C16: Funding and withdrawal.  fund_escrow and withdraw_escrow fail with
\* InvalidAmount when amount = 0; withdraw fails with InsufficientFunds
\* when amount > escrow_balance; a successful fund adds exactly amount to
\* escrow_balance and a successful withdraw subtracts exactly amount;
\* withdraw of any amount up to escrow_balance succeeds (its transfer going
\* through) whatever stake_locked and fraud_count are; neither operation
\* changes any other field of the escrow account or the registry.
C16_FundWithdraw ==
    (Idle /\ "escrow_account" \in created) =>
        \A amount \in 0..(U64_MAX + 1), transfer_ok \in BOOLEAN :
            LET f == fund_escrow(escrow_account, nonce_registry, amount,
                                 transfer_ok)
                w == withdraw_escrow(escrow_account, nonce_registry, amount,
                                     transfer_ok)
            IN  /\ amount = 0 =>
                      f.err = "InvalidAmount" /\ w.err = "InvalidAmount"
                /\ amount > escrow_account.escrow_balance =>
                      w.err = "InsufficientFunds"
                /\ f.err = "Ok" =>
                      /\ EscrowAfter(f) =
                            [escrow_account EXCEPT !.escrow_balance =
                                escrow_account.escrow_balance + amount]
                      /\ RegistryAfter(f) = nonce_registry
                /\ w.err = "Ok" =>
                      /\ EscrowAfter(w) =
                            [escrow_account EXCEPT !.escrow_balance =
                                escrow_account.escrow_balance - amount]
                      /\ RegistryAfter(w) = nonce_registry
                /\ ( /\ amount > 0
                     /\ amount <= escrow_account.escrow_balance
                     /\ transfer_ok ) => w.err = "Ok"

\* after a slash, a withdrawal took the whole remaining balance
C16_Witness ==
    /\ result = [op |-> "withdraw_escrow", err |-> "Ok"]
    /\ escrow_account.stake_locked > 0
    /\ escrow_account.fraud_count > 0
    /\ escrow_account.escrow_balance = 0
    /\ escrow_account.total_spent > 0

(***************************************************************************)
(* The program at full-size amounts.  ScenarioSpec runs the handlers with  *)
(* u64::MAX far above every sum that occurs (TLC's integers have 32 bits,  *)
(* so 2^30 stands for 2^64 - 1): an escrow funded once with 1000,          *)
(* settlements of 100 for the bundle id "b1" and of 50 for "b2" and "b3"   *)
(* with the nonces 1..4, fraud reports against "b1" and "b3", and one      *)
(* withdrawal of 500.                                                      *)
(***************************************************************************)
ScenarioU64Max == 2^30

\* "b1", "b2", "b3" as bytes
ScenarioIds == {<<98, 49>>, <<98, 50>>, <<98, 51>>}

\* conflicting_hash values: all-zero, the hash of "b1", two hashes of no
\* bundle
ScenarioHashes == {ZeroHash, keccak(<<98, 49>>), 1000, 2000}

ScenarioCall(amount, payer_nonce, bundle_id) ==
    [amount |-> amount, payer_nonce |-> payer_nonce, bundle_id |-> bundle_id,
     evidence |-> [payer_proof |-> None, merchant_proof |-> None],
     merchant |-> MerchantKey, now |-> 100000, transfer_ok |-> TRUE]

ScenarioCalls ==
    {ScenarioCall(IF bundle_id = <<98, 49>> THEN 100 ELSE 50, payer_nonce,
                  bundle_id) :
        payer_nonce \in 1..4, bundle_id \in ScenarioIds}

\* the reports: every conflicting_hash against "b1", one against "b3"
ScenarioReports ==
    {<<(<<98, 49>>), conflicting_hash>> :
        conflicting_hash \in ScenarioHashes} \cup {<<(<<98, 51>>), 1000>>}

ScenarioInit ==
    /\ created = {}
    /\ escrow_account = EmptyEscrow
    /\ nonce_registry = EmptyRegistry
    /\ result = NoCall
    /\ net_funded = 0
    /\ settle_log = << >>
    /\ fraud_log = [pairs |-> {}, reports |-> 0, slashed |-> 0]
    /\ u64_max = ScenarioU64Max
    /\ attest = NoAttest

\* initialize_escrow with nothing or with 1000
ScenarioInitializeEscrow ==
    /\ Idle
    /\ "escrow_account" \notin created
    /\ \E initial_amount \in {0, 1000}, now \in Clocks :
          LET res == initialize_escrow(escrow_account, nonce_registry,
                                       initial_amount, now, TRUE)
          IN  /\ Store(res)
              /\ result' = [op |-> "initialize_escrow", err |-> res.err]
              /\ created' = IF res.err = "Ok"
                            THEN created \cup {"escrow_account"}
                            ELSE created
              /\ net_funded' = IF res.err = "Ok" THEN initial_amount
                               ELSE net_funded
    /\ UNCHANGED <<settle_log, fraud_log>>
    /\ Frame

\* fund_escrow with 1000, once, on an escrow that was created empty
ScenarioFundEscrow ==
    /\ Idle
    /\ "escrow_account" \in created
    /\ net_funded = 0
    /\ \E transfer_ok \in BOOLEAN :
          LET res == fund_escrow(escrow_account, nonce_registry, 1000,
                                 transfer_ok)
          IN  /\ Store(res)
              /\ result' = [op |-> "fund_escrow", err |-> res.err]
              /\ net_funded' = IF res.err = "Ok" THEN net_funded + 1000
                               ELSE net_funded
    /\ UNCHANGED <<created, settle_log, fraud_log>>
    /\ Frame

\* withdraw_escrow of 500, once
ScenarioWithdrawEscrow ==
    /\ Idle
    /\ "escrow_account" \in created
    /\ net_funded = 1000
    /\ LET res == withdraw_escrow(escrow_account, nonce_registry, 500, TRUE)
       IN  /\ Store(res)
           /\ result' = [op |-> "withdraw_escrow", err |-> res.err]
           /\ net_funded' = IF res.err = "Ok" THEN net_funded - 500
                            ELSE net_funded
    /\ UNCHANGED <<created, settle_log, fraud_log>>
    /\ Frame

ScenarioSettle ==
    /\ Idle
    /\ created = {"escrow_account", "nonce_registry"}
    /\ \E call \in ScenarioCalls :
          LET res == settle_offline_payment(escrow_account, nonce_registry,
                         call.amount, call.payer_nonce, call.bundle_id,
                         call.evidence, call.merchant, call.now,
                         call.transfer_ok)
          IN  /\ Store(res)
              /\ result' = [op |-> "settle_offline_payment",
                            err |-> res.err]
              /\ settle_log' =
                    IF res.err = "Ok"
                    THEN Append(settle_log,
                             [bundle_hash |-> keccak(call.bundle_id),
                              merchant |-> MerchantKey,
                              amount |-> call.amount,
                              settled_at |-> call.now,
                              nonce |-> call.payer_nonce])
                    ELSE settle_log
    /\ UNCHANGED <<created, net_funded, fraud_log>>
    /\ Frame

ScenarioReport ==
    /\ Idle
    /\ created = {"escrow_account", "nonce_registry"}
    /\ \E report \in ScenarioReports, now \in Clocks :
          LET bundle_id == report[1]
              conflicting_hash == report[2]
              res == report_fraudulent_bundle(escrow_account,
                         nonce_registry, bundle_id, conflicting_hash,
                         "DuplicateBundle", ReporterKey, now)
          IN  /\ Store(res)
              /\ result' = [op |-> "report_fraudulent_bundle",
                            err |-> res.err]
              /\ fraud_log' =
                    IF res.err = "Ok"
                    THEN [pairs |-> fraud_log.pairs \cup
                              {<<keccak(bundle_id), conflicting_hash>>},
                          reports |-> fraud_log.reports + 1,
                          slashed |-> fraud_log.slashed
                              + (escrow_account.escrow_balance
                                 - res.escrow.escrow_balance)]
                    ELSE fraud_log
    /\ UNCHANGED <<created, net_funded, settle_log>>
    /\ Frame

ScenarioNext ==
    \/ ScenarioInitializeEscrow
    \/ InitializeNonceRegistry
    \/ ScenarioFundEscrow
    \/ ScenarioWithdrawEscrow
    \/ ScenarioSettle
    \/ ScenarioReport
    \/ MigrateEscrow
    \/ Return

ScenarioSpec == ScenarioInit /\ [][ScenarioNext]_vars

\* BundleRecords of the scenario: 100 for "b1" at nonce 1, 50 for "b2" at
\* nonce 2
ScenarioRecord1 ==
    [bundle_hash |-> keccak(<<98, 49>>), merchant |-> MerchantKey,
     amount |-> 100, settled_at |-> 100000, nonce |-> 1]

ScenarioRecord2 ==
    [bundle_hash |-> keccak(<<98, 50>>), merchant |-> MerchantKey,
     amount |-> 50, settled_at |-> 100000, nonce |-> 2]

\* the outcome of a fraud report on the stored accounts
ReportResult(bundle_id, conflicting_hash) ==
    report_fraudulent_bundle(escrow_account, nonce_registry, bundle_id,
        conflicting_hash, "DuplicateBundle", ReporterKey, 100000)

\* C17: End-to-end scenario.  From a fresh escrow funded with 1000 and an
\* empty registry: settle(100, nonce 1, "b1") succeeds and gives balance 900
\* and bundle_history = [(hash(b1), 100, nonce 1)]; settle(50, nonce 1,
\* "b2") is then rejected with InvalidNonce and changes nothing; settle(50,
\* nonce 2, "b2") succeeds and gives balance 850; report_fraud("b1", H) with
\* H non-zero and different from hash(b1) succeeds and gives balance 650,
\* stake_locked 200, fraud_count 1, reputation 0.
C17_Scenario ==
    LET funded == BothCreated /\ net_funded = 1000
        stale == SettleResult(ScenarioCall(50, 1, <<98, 50>>))
    IN  /\ (funded /\ Idle /\ settle_log = << >> /\ fraud_log.reports = 0)
           => /\ escrow_account.escrow_balance = 1000
              /\ nonce_registry.bundle_history = << >>
              /\ SettleResult(ScenarioCall(100, 1, <<98, 49>>)).err = "Ok"
        /\ (funded /\ settle_log = <<ScenarioRecord1>>
                   /\ fraud_log.reports = 0)
           => /\ escrow_account.escrow_balance = 900
              /\ nonce_registry.bundle_history = <<ScenarioRecord1>>
              /\ Idle =>
                    /\ stale.err = "InvalidNonce"
                    /\ EscrowAfter(stale) = escrow_account
                    /\ RegistryAfter(stale) = nonce_registry
                    /\ SettleResult(ScenarioCall(50, 2, <<98, 50>>)).err
                          = "Ok"
        /\ (funded /\ settle_log = <<ScenarioRecord1, ScenarioRecord2>>
                   /\ fraud_log.reports = 0)
           => /\ escrow_account.escrow_balance = 850
              /\ Idle => ReportResult(<<98, 49>>, 1000).err = "Ok"
        /\ (funded /\ settle_log = <<ScenarioRecord1, ScenarioRecord2>>
                   /\ fraud_log.reports = 1
                   /\ fraud_log.pairs = {<<keccak(<<98, 49>>), 1000>>})
           => /\ escrow_account.escrow_balance = 650
              /\ escrow_account.stake_locked = 200
              /\ escrow_account.fraud_count = 1
              /\ escrow_account.reputation_score = 0

\* the last step of the scenario: the report against "b1" has just succeeded
\* after the two settlements
C17_Witness ==
    /\ net_funded = 1000
    /\ settle_log = <<ScenarioRecord1, ScenarioRecord2>>
    /\ result = [op |-> "report_fraudulent_bundle", err |-> "Ok"]
    /\ fraud_log.pairs = {<<keccak(<<98, 49>>), 1000>>}
    /\ escrow_account.escrow_balance = 650
    /\ escrow_account.stake_locked = 200

\* a record of the bundle is in bundle_history
InHistory(bundle_id) ==
    \E i \in 1..Len(nonce_registry.bundle_history) :
        nonce_registry.bundle_history[i].bundle_hash = keccak(bundle_id)

\* C15: Fraud report preconditions.  For a well-formed bundle_id,
\* report_fraudulent_bundle is rejected with InvalidBundleHash when
\* conflicting_hash is all-zero, otherwise with BundleHistoryNotFound when
\* no record in bundle_history has the hash of bundle_id (never settled, or
\* evicted), otherwise with FraudHashMatches when conflicting_hash equals
\* the hash of bundle_id; in these cases no fraud record is appended and no
\* slash applied.
C15_ReportPreconditions ==
    (BothCreated /\ Idle) =>
        \A bundle_id \in ValidBundleIds \cup ScenarioIds :
            \A conflicting_hash \in
                  ConflictHashes \cup ScenarioHashes \cup {keccak(bundle_id)} :
                LET res == ReportResult(bundle_id, conflicting_hash)
                IN  /\ conflicting_hash = ZeroHash =>
                          res.err = "InvalidBundleHash"
                    /\ (conflicting_hash # ZeroHash /\ ~InHistory(bundle_id))
                          => res.err = "BundleHistoryNotFound"
                    /\ ( /\ InHistory(bundle_id)
                         /\ conflicting_hash = keccak(bundle_id) )
                          => res.err = "FraudHashMatches"
                    /\ res.err \in {"InvalidBundleHash",
                                    "BundleHistoryNotFound",
                                    "FraudHashMatches"}
                          => /\ EscrowAfter(res) = escrow_account
                             /\ RegistryAfter(res) = nonce_registry

\* a report against "b1" was rejected with BundleHistoryNotFound after "b1"
\* had been settled and its record evicted from bundle_history, while a
\* report with the hash of a bundle in the history as conflicting_hash
\* would be rejected with FraudHashMatches
C15_Witness ==
    /\ result = [op |-> "report_fraudulent_bundle",
                 err |-> "BundleHistoryNotFound"]
    /\ \E i \in 1..Len(settle_log) :
          settle_log[i].bundle_hash = keccak(<<98, 49>>)
    /\ ~InHistory(<<98, 49>>)
    /\ Len(nonce_registry.bundle_history) = MAX_BUNDLE_HISTORY
    /\ ReportResult(<<98, 50>>, keccak(<<98, 50>>)).err = "FraudHashMatches"

\* the amount of the first bundle_history record of the bundle (lib.rs:313-318)
SettledAmount(bundle_id) ==
    nonce_registry.bundle_history[
        find_record(nonce_registry.bundle_history, keccak(bundle_id))].amount

\* a fraud record with this pair is stored (lib.rs:281-285)
HasFraudRecord(bundle_id, conflicting_hash) ==
    \E i \in 1..Len(nonce_registry.fraud_records) :
        /\ nonce_registry.fraud_records[i].bundle_hash = keccak(bundle_id)
        /\ nonce_registry.fraud_records[i].conflicting_hash = conflicting_hash

\* the report passes the checks of lib.rs:267-285 and reaches the slash
ReachesSlash(bundle_id, conflicting_hash) ==
    /\ conflicting_hash # ZeroHash
    /\ InHistory(bundle_id)
    /\ conflicting_hash # keccak(bundle_id)
    /\ ~HasFraudRecord(bundle_id, conflicting_hash)

\* C18: Arithmetic is never silent.  escrow_balance, total_spent and
\* stake_locked stay within u64 and fraud_count within u32 in every state
\* (no counter wraps).  A fund_escrow reaching the addition with
\* escrow_balance + amount above u64::MAX fails with Overflow; a settlement
\* passing its checks with total_spent + amount above u64::MAX fails with
\* Overflow; a report reaching the slash fails with Overflow when 2 x amount
\* exceeds u64::MAX, and when the balance covers the slash and
\* stake_locked + slash exceeds u64::MAX; each leaves the stored state
\* unchanged.  A successful report sets reputation_score to the old score
\* less 1000, floored at 0.
C18_ArithmeticNeverSilent ==
    /\ "escrow_account" \in created =>
          /\ escrow_account.escrow_balance \in 0..U64_MAX
          /\ escrow_account.total_spent \in 0..U64_MAX
          /\ escrow_account.stake_locked \in 0..U64_MAX
          /\ escrow_account.fraud_count \in 0..U32_MAX
          /\ escrow_account.reputation_score >= 0
    /\ (Idle /\ "escrow_account" \in created) =>
          \A amount \in 1..U64_MAX :
              LET f == fund_escrow(escrow_account, nonce_registry, amount, TRUE)
              IN  escrow_account.escrow_balance + amount > U64_MAX =>
                      /\ f.err = "Overflow"
                      /\ EscrowAfter(f) = escrow_account
                      /\ RegistryAfter(f) = nonce_registry
    /\ (BothCreated /\ Idle) =>
          \A call \in SettleCalls :
              LET s == SettleResult(call)
              IN  ( /\ PassesChecks(call)
                    /\ ProofsAccepted(call)
                    /\ call.transfer_ok
                    /\ escrow_account.total_spent + call.amount > U64_MAX )
                  => /\ s.err = "Overflow"
                     /\ EscrowAfter(s) = escrow_account
                     /\ RegistryAfter(s) = nonce_registry
    /\ (BothCreated /\ Idle) =>
          \A bundle_id \in ValidBundleIds, conflicting_hash \in ConflictHashes :
              LET r == ReportResult(bundle_id, conflicting_hash)
                  slash == 2 * SettledAmount(bundle_id)
                  old == escrow_account
              IN  /\ ( /\ ReachesSlash(bundle_id, conflicting_hash)
                       /\ \/ slash > U64_MAX
                          \/ /\ old.escrow_balance >= slash
                             /\ old.stake_locked + slash > U64_MAX )
                      => /\ r.err = "Overflow"
                         /\ EscrowAfter(r) = escrow_account
                         /\ RegistryAfter(r) = nonce_registry
                  /\ r.err = "Ok" =>
                         EscrowAfter(r).reputation_score =
                             IF old.reputation_score >= 1000
                             THEN old.reputation_score - 1000 ELSE 0

\* a report was rejected with Overflow by the addition to stake_locked: the
\* stake of an earlier slash is locked, every settled amount doubles within
\* u64, and the balance covers the slash
C18_Witness ==
    /\ result = [op |-> "report_fraudulent_bundle", err |-> "Overflow"]
    /\ escrow_account.stake_locked > 0
    /\ \A i \in 1..Len(nonce_registry.bundle_history) :
          /\ 2 * nonce_registry.bundle_history[i].amount <= U64_MAX
          /\ escrow_account.escrow_balance >=
                 2 * nonce_registry.bundle_history[i].amount
    /\ escrow_account.escrow_balance + 1 > U64_MAX

\* payer_nonce is not above both stored copies of last_nonce (lib.rs:141-142)
StaleNonce(call) ==
    call.payer_nonce <= Max(nonce_registry.last_nonce, escrow_account.last_nonce)

\* C19: Precondition order of settle.  The error of a settlement call is
\* that of the first violated precondition in the order: bundle_id empty or
\* longer than 128 bytes (InvalidBundleId), a present payer or merchant proof
\* rejected (InvalidAttestation), bundle hash in recent_bundle_hashes
\* (DuplicateBundle), payer_nonce not above the larger last_nonce copy
\* (InvalidNonce), balance below amount (InsufficientFunds).
C19_SettlePreconditionOrder ==
    (BothCreated /\ Idle) =>
        \A call \in SettleCalls :
            LET err == SettleResult(call).err
            IN  IF ~WellFormedId(call) THEN err = "InvalidBundleId"
                ELSE IF ~ProofsAccepted(call) THEN err = "InvalidAttestation"
                ELSE IF InRecent(call) THEN err = "DuplicateBundle"
                ELSE IF StaleNonce(call) THEN err = "InvalidNonce"
                ELSE IF escrow_account.escrow_balance < call.amount
                THEN err = "InsufficientFunds"
                ELSE err \notin {"InvalidBundleId", "InvalidAttestation",
                                 "DuplicateBundle", "InvalidNonce",
                                 "InsufficientFunds"}

\* a settlement was rejected with DuplicateBundle in a state where a call
\* repeats a recent bundle with a stale nonce and an amount above the
\* balance, another has a stale nonce and an amount above the balance for a
\* bundle that is not recent, and a third has a malformed bundle id, a
\* proof and a stale nonce
C19_Witness ==
    /\ result = [op |-> "settle_offline_payment", err |-> "DuplicateBundle"]
    /\ \E call \in SettleCalls :
          /\ WellFormedId(call) /\ ProofsAccepted(call)
          /\ InRecent(call) /\ StaleNonce(call)
          /\ escrow_account.escrow_balance < call.amount
          /\ SettleResult(call).err = "DuplicateBundle"
    /\ \E call \in SettleCalls :
          /\ WellFormedId(call) /\ ProofsAccepted(call)
          /\ ~InRecent(call) /\ StaleNonce(call)
          /\ escrow_account.escrow_balance < call.amount
          /\ SettleResult(call).err = "InvalidNonce"
    /\ \E call \in SettleCalls :
          /\ ~WellFormedId(call)
          /\ call.evidence.payer_proof # None
          /\ StaleNonce(call)
          /\ SettleResult(call).err = "InvalidBundleId"

\* C20: Fraud-record uniqueness.  In every reachable state no two entries
\* of fraud_records have the same (bundle_hash, conflicting_hash) pair, and
\* every entry has a non-zero conflicting_hash different from its
\* bundle_hash.
C20_FraudRecordUniqueness ==
    LET records == nonce_registry.fraud_records
    IN  /\ \A i, j \in 1..Len(records) :
              ( /\ records[i].bundle_hash = records[j].bundle_hash
                /\ records[i].conflicting_hash = records[j].conflicting_hash )
              => i = j
        /\ \A i \in 1..Len(records) :
              /\ records[i].conflicting_hash # ZeroHash
              /\ records[i].conflicting_hash # records[i].bundle_hash

\* with fraud_records full, a report of a stored pair was rejected with
\* FraudEvidenceExists
C20_Witness ==
    /\ result = [op |-> "report_fraudulent_bundle",
                 err |-> "FraudEvidenceExists"]
    /\ Len(nonce_registry.fraud_records) = MAX_FRAUD_RECORDS
    /\ MAX_FRAUD_RECORDS >= 2

\* the bundle_hash fields of a sequence of BundleRecords, in order
HashesOf(history) == [i \in 1..Len(history) |-> history[i].bundle_hash]

C22_HistoryOrderedByNonce ==
    LET history == nonce_registry.bundle_history
    IN  /\ \A i, j \in 1..Len(history) :
              i < j => history[i].nonce < history[j].nonce
        /\ history # << >> =>
              /\ Last(history).nonce = nonce_registry.last_nonce
              /\ Last(history).nonce = escrow_account.last_nonce

\* bundle_history is full, a nonce was skipped between two of its entries,
\* and a settlement with a nonce equal to last_nonce was just rejected
C22_Witness ==
    /\ Len(nonce_registry.bundle_history) = MAX_BUNDLE_HISTORY
    /\ \E i \in 1..(Len(nonce_registry.bundle_history) - 1) :
          nonce_registry.bundle_history[i + 1].nonce >
              nonce_registry.bundle_history[i].nonce + 1
    /\ result = [op |-> "settle_offline_payment", err |-> "InvalidNonce"]

\* C23: the Underflow error is unreachable.  No call of
\* settle_offline_payment, withdraw_escrow or report_fraudulent_bundle
\* returns Underflow in a reachable state: a call whose amount exceeds
\* escrow_balance is rejected by the check before the subtraction
\* (InsufficientFunds, InsufficientFundsForSlash) when it gets that far.
C23_UnderflowUnreachable ==
    /\ result.err # "Underflow"
    /\ (Idle /\ "escrow_account" \in created) =>
          \A amount \in 0..U64_MAX, transfer_ok \in BOOLEAN :
              LET w == withdraw_escrow(escrow_account, nonce_registry,
                                       amount, transfer_ok)
              IN  /\ w.err # "Underflow"
                  /\ amount > escrow_account.escrow_balance =>
                         w.err = "InsufficientFunds"
    /\ (BothCreated /\ Idle) =>
          /\ \A call \in SettleCalls :
                SettleResult(call).err # "Underflow"
          /\ \A bundle_id \in ValidBundleIds,
                conflicting_hash \in ConflictHashes :
                LET r == ReportResult(bundle_id, conflicting_hash)
                IN  /\ r.err # "Underflow"
                    /\ ( /\ ReachesSlash(bundle_id, conflicting_hash)
                         /\ 2 * SettledAmount(bundle_id) <= U64_MAX
                         /\ escrow_account.escrow_balance <
                                2 * SettledAmount(bundle_id) )
                       => r.err = "InsufficientFundsForSlash"

\* a report was rejected with InsufficientFundsForSlash while the balance
\* is also below the amount of a settlement call that passes every other
\* check and below the amount of a withdrawal
C23_Witness ==
    /\ result = [op |-> "report_fraudulent_bundle",
                 err |-> "InsufficientFundsForSlash"]
    /\ \E call \in SettleCalls :
          /\ WellFormedId(call) /\ ProofsAccepted(call)
          /\ ~InRecent(call) /\ ~StaleNonce(call) /\ call.transfer_ok
          /\ call.amount > escrow_account.escrow_balance
          /\ SettleResult(call).err = "InsufficientFunds"
    /\ withdraw_escrow(escrow_account, nonce_registry, MaxAmount, TRUE).err
           = "InsufficientFunds"

\* C24: reputation is two-valued.  In every reachable state of an escrow
\* created by initialize_escrow, reputation_score is 100 when
\* fraud_count = 0 and 0 when fraud_count >= 1; no operation on the created
\* escrow ever increases reputation_score.
C24_ReputationTwoValued ==
    /\ []("escrow_account" \in created =>
            /\ escrow_account.fraud_count = 0 =>
                  escrow_account.reputation_score = 100
            /\ escrow_account.fraud_count >= 1 =>
                  escrow_account.reputation_score = 0)
    /\ [][ "escrow_account" \in created =>
              escrow_account'.reputation_score
                  <= escrow_account.reputation_score ]_vars

\* a second report succeeded on an escrow whose reputation_score was
\* already 0
C24_Witness ==
    /\ result = [op |-> "report_fraudulent_bundle", err |-> "Ok"]
    /\ escrow_account.fraud_count >= 2
    /\ escrow_account.reputation_score = 0

\* the amount of the first record of `history` with this bundle_hash
\* (lib.rs:313-320)
AmountOf(history, bundle_hash) ==
    history[find_record(history, bundle_hash)].amount

\* C25: locked stake is never released.  stake_locked and fraud_count are
\* changed only by a successful report_fraudulent_bundle, which adds twice
\* the amount of the reported bundle's record to stake_locked and 1 to
\* fraud_count, also when the same bundle was reported before with another
\* conflicting hash; every other step leaves both as they are.  In every
\* reachable state stake_locked equals the sum of the slash amounts of the
\* successful reports and fraud_count equals their number.
C25_StakeNeverReleased ==
    /\ [](/\ escrow_account.stake_locked = fraud_log.slashed
          /\ escrow_account.fraud_count = fraud_log.reports)
    /\ [][ IF result' = [op |-> "report_fraudulent_bundle", err |-> "Ok"]
              /\ result = NoCall
           THEN /\ escrow_account'.stake_locked =
                       escrow_account.stake_locked
                       + 2 * AmountOf(nonce_registry.bundle_history,
                               Last(nonce_registry'.fraud_records).bundle_hash)
                /\ escrow_account'.fraud_count =
                       escrow_account.fraud_count + 1
           ELSE /\ escrow_account'.stake_locked = escrow_account.stake_locked
                /\ escrow_account'.fraud_count = escrow_account.fraud_count
         ]_vars

\* two reports with different conflicting hashes against "b1", settled for
\* 100, succeeded and a withdrawal of 500 was paid out: 400 is locked
C25_Witness ==
    /\ result = [op |-> "report_fraudulent_bundle", err |-> "Ok"]
    /\ fraud_log.pairs = {<<keccak(<<98, 49>>), 1000>>,
                          <<keccak(<<98, 49>>), 2000>>}
    /\ net_funded = 500
    /\ escrow_account.stake_locked = 400
    /\ escrow_account.fraud_count = 2
    /\ escrow_account.escrow_balance = 0

====
